---- MODULE Spec2Model ----
(***************************************************************************)
(* Model of src/bot.js: the WhatsAppBot class.  The keyword table          *)
(* (this.responses, a JS Map), its refresh from the spreadsheet            *)
(* (loadResponses), message handling (handleMessage), the group gate       *)
(* (shouldRespondInGroup) and the administrative operations.               *)
(*                                                                         *)
(* JS strings are sequences of one-character strings.  A JS value that may *)
(* be undefined/null is a sequence of length 0 (undefined) or 1 (<<v>>).   *)
(* The Map is the sequence of its entries in insertion order.              *)
(* JS runs one callback at a time: a callback yields only at an await.     *)
(***************************************************************************)
EXTENDS Integers, Sequences, FiniteSets, TLC

\* ------------------------------------------------------------------ bounds
MaxRows == 2
MaxCycles == 2
MaxMsgs == 1
MaxAdds == 1


\* ------------------------------------------------------------ JS strings
None == <<>>
Some(v) == <<v>>

\* JS truthiness of a string-or-undefined value: undefined, null and "" are falsy.
Truthy(o) == o # None /\ o[1] # <<>>

Whitespace == {" "}

LowerChar(c) == CASE c = "H" -> "h" [] c = "I" -> "i" [] OTHER -> c

\* String.prototype.toLowerCase
ToLowerCase(s) == [j \in 1..Len(s) |-> LowerChar(s[j])]

RECURSIVE TrimStart(_)
TrimStart(s) == IF s # <<>> /\ Head(s) \in Whitespace THEN TrimStart(Tail(s)) ELSE s

RECURSIVE TrimEnd(_)
TrimEnd(s) ==
    IF s # <<>> /\ s[Len(s)] \in Whitespace THEN TrimEnd(SubSeq(s, 1, Len(s) - 1)) ELSE s

\* String.prototype.trim
Trim(s) == TrimEnd(TrimStart(s))

\* String.prototype.includes
Includes(s, sub) ==
    \E k \in 0..(Len(s) - Len(sub)) : SubSeq(s, k + 1, k + Len(sub)) = sub

\* The key under which a keyword is stored, and the form a body is looked up in:
\* x.toLowerCase().trim().  config.caseSensitive is never read.
Normalize(s) == Trim(ToLowerCase(s))

\* ------------------------------------------------------------------ the Map
Entry(k, v) == [key |-> k, reply |-> v]

Keys(t) == {t[j].key : j \in 1..Len(t)}

MapHas(t, k) == k \in Keys(t)

IndexOf(t, k) == CHOOSE j \in 1..Len(t) : t[j].key = k

\* Map.prototype.get: the value, or undefined
MapGet(t, k) == IF MapHas(t, k) THEN Some(t[IndexOf(t, k)].reply) ELSE None

\* Map.prototype.set: an existing key keeps its place, a new key goes last
MapSet(t, k, v) ==
    IF MapHas(t, k)
    THEN [j \in 1..Len(t) |-> IF t[j].key = k THEN Entry(k, v) ELSE t[j]]
    ELSE Append(t, Entry(k, v))

\* ------------------------------------------------------------- sample data
sHi == <<"h", "i">>
sH == <<"h">>
sHiMixed == <<" ", "H", "i", " ">>
sA == <<"a">>
sB == <<"b">>
sCPadded == <<" ", "c", " ">>
sBlank == <<" ">>
sEmpty == <<>>
sTemplate == <<"{", "n", "a", "m", "e", "}">>

\* Spreadsheet rows: each a sequence of 0, 1 or 2 cells.
RowChoices ==
    { <<sHi, sA>>,             \* well formed
      <<sH, sB>>,              \* keyword contained in "hi"
      <<sHiMixed, sCPadded>>,  \* same key as "hi" once normalized
      <<sHi, sBlank>>,         \* whitespace-only reply
      <<sBlank, sA>>,          \* whitespace-only keyword
      <<sHi>>,                 \* reply cell absent
      <<sEmpty, sA>> }         \* keyword cell empty

RECURSIVE SeqsUpTo(_, _)
SeqsUpTo(S, n) ==
    IF n = 0 THEN {<<>>}
    ELSE LET shorter == SeqsUpTo(S, n - 1)
         IN shorter \cup {Append(q, x) : q \in {r \in shorter : Len(r) = n - 1}, x \in S}

\* What a fetch can return (response.data.values; undefined is modelled as <<>>)
RowSeqs == SeqsUpTo(RowChoices, MaxRows)

\* ------------------------------------------------------------------- state
VARIABLES
    config,         \* this.config, without groupSettings.allowedGroups
    allowedGroups,  \* this.config.groupSettings.allowedGroups
    responses,      \* this.responses
    timerSet,       \* the setInterval of line 36 is installed
    loads,          \* loads[c]: refresh cycle c, one call of loadResponses
    msgs,           \* msgs[m]: the handling of the m-th incoming message
    sent,           \* the messages message.reply was called on, in call order
    adds,           \* number of addResponse calls so far
    allowListMode,  \* history: allowedGroups has held an entry at some time
    client,         \* this.client: "up", "destroying" (stop() awaits), "destroyed"
    installed       \* history: the cycle that last cleared and refilled the table

vars == <<config, allowedGroups, responses, timerSet, loads, msgs, sent, adds,
          allowListMode, client, installed>>

\* A faulty loadResponses: the rebuild loop yields to the event loop at every
\* iteration.
LoadYieldEveryStep == {"idle", "fetching", "row", "loaded", "caught", "norows", "done"}

\* Program points of loadResponses at which it is not on the stack: not yet
\* called, suspended at the await of line 45, returned.
LoadYield == {"idle", "fetching", "done"}

\* Program points of handleMessage at which it is not on the stack: not yet
\* called, suspended at the awaits of lines 105, 106, 143/146, returned.
MsgYield == {"new", "getContact", "getChat", "replying", "done"}

\* The callbacks that are in the middle of a synchronous block.
Running ==
    {<<"load", c>> : c \in {d \in DOMAIN loads : loads[d].pc \notin LoadYield}}
    \cup {<<"msg", m>> : m \in {n \in DOMAIN msgs : msgs[n].pc \notin MsgYield}}

\* Run to completion: callback x may take a step when no other callback is
\* in the middle of a synchronous block.
MayRun(x) == Running \subseteq {x}

IdleLoad == [pc |-> "idle", rows |-> <<>>, i |-> 0]

\* ----------------------------------------------------------- loadResponses
\* rows[i] destructured as [keyword, reply]: a missing cell is undefined
Cell(row, j) == IF Len(row) >= j THEN Some(row[j]) ELSE None

\* A faulty line 55: the loop starts at the first row whatever hasHeader says.
StartRowAlwaysFirst(cfg) == 1

\* line 55
StartRow(cfg) == IF cfg.hasHeader THEN 2 ELSE 1

\* A faulty loop body: a row whose key is already in the table is dropped.
StoreRowFirstWins(t, row) ==
    LET keyword == Cell(row, 1)
        reply == Cell(row, 2)
    IN IF Truthy(keyword) /\ Truthy(reply) /\ ~MapHas(t, Normalize(keyword[1]))
       THEN MapSet(t, Normalize(keyword[1]), Trim(reply[1]))
       ELSE t

\* lines 58-61: one iteration of the loop
StoreRow(t, row) ==
    LET keyword == Cell(row, 1)
        reply == Cell(row, 2)
    IN IF Truthy(keyword) /\ Truthy(reply)
       THEN MapSet(t, Normalize(keyword[1]), Trim(reply[1]))
       ELSE t

\* line 36 runs once the awaited initial load (cycle 1) has returned
TimerAfter(c) == timerSet \/ c = 1

\* the timer fires: loadResponses is called and suspends at line 45
LoadStart(c) ==
    /\ c > 1
    /\ c \in DOMAIN loads
    /\ timerSet
    /\ loads[c].pc = "idle"
    /\ loads[c - 1].pc # "idle"
    /\ MayRun(<<"load", c>>)
    /\ loads' = [loads EXCEPT ![c].pc = "fetching"]
    /\ UNCHANGED <<config, allowedGroups, responses, timerSet, msgs, sent, adds, allowListMode, client, installed>>

\* lines 45-55: the fetch resolves with rows; if there are any, the table is
\* cleared and the loop is entered
FetchResolve(c, rows) ==
    /\ loads[c].pc = "fetching"
    /\ MayRun(<<"load", c>>)
    /\ IF Len(rows) > 0
       THEN /\ responses' = <<>>
            /\ installed' = c
            /\ loads' = [loads EXCEPT
                           ![c].rows = rows,
                           ![c].i = StartRow(config),
                           ![c].pc = IF StartRow(config) > Len(rows)
                                     THEN "loaded" ELSE "row"]
       ELSE /\ loads' = [loads EXCEPT ![c].pc = "norows"]
            /\ UNCHANGED <<responses, installed>>
    /\ UNCHANGED <<config, allowedGroups, timerSet, msgs, sent, adds, allowListMode, client>>

\* A faulty catch: the table is cleared although the fetch failed.
FetchRejectClearsTable(c) ==
    /\ loads[c].pc = "fetching"
    /\ MayRun(<<"load", c>>)
    /\ loads' = [loads EXCEPT ![c].pc = "caught"]
    /\ responses' = <<>>
    /\ UNCHANGED <<config, allowedGroups, timerSet, msgs, sent, adds, allowListMode, client, installed>>

\* lines 45, 66-67: the fetch rejects; the catch logs
FetchReject(c) ==
    /\ loads[c].pc = "fetching"
    /\ MayRun(<<"load", c>>)
    /\ loads' = [loads EXCEPT ![c].pc = "caught"]
    /\ UNCHANGED <<config, allowedGroups, responses, timerSet, msgs, sent, adds, allowListMode, client, installed>>

\* lines 57-62
LoadRow(c) ==
    /\ loads[c].pc = "row"
    /\ MayRun(<<"load", c>>)
    /\ responses' = StoreRow(responses, loads[c].rows[loads[c].i])
    /\ loads' = [loads EXCEPT
                   ![c].i = @ + 1,
                   ![c].pc = IF loads[c].i >= Len(loads[c].rows)
                             THEN "loaded" ELSE "row"]
    /\ UNCHANGED <<config, allowedGroups, timerSet, msgs, sent, adds, allowListMode, client, installed>>

\* lines 64-69: loadResponses returns, after the log of line 64, after the
\* catch, or with no rows; line 36 follows the return of the initial load
LoadReturn(c) ==
    /\ loads[c].pc \in {"loaded", "caught", "norows"}
    /\ MayRun(<<"load", c>>)
    /\ loads' = [loads EXCEPT ![c] = [IdleLoad EXCEPT !.pc = "done"]]
    /\ timerSet' = TimerAfter(c)
    /\ UNCHANGED <<config, allowedGroups, responses, msgs, sent, adds, allowListMode, client, installed>>

\* ------------------------------------------------------------- addResponse
AddKeywords == {sHiMixed, sH}
AddReplies == {sTemplate, sBlank}

\* A faulty addResponse: the keyword is stored as given.
AddResponseRawKey(keyword, reply) ==
    /\ adds < MaxAdds
    /\ Running = {}
    /\ responses' = MapSet(responses, keyword, Trim(reply))
    /\ adds' = adds + 1
    /\ UNCHANGED <<config, allowedGroups, timerSet, loads, msgs, sent, allowListMode, client, installed>>

\* lines 227-230
AddResponse(keyword, reply) ==
    /\ adds < MaxAdds
    /\ Running = {}
    /\ responses' = MapSet(responses, Normalize(keyword), Trim(reply))
    /\ adds' = adds + 1
    /\ UNCHANGED <<config, allowedGroups, timerSet, loads, msgs, sent, allowListMode, client, installed>>

\* ---------------------------------------------------- shouldRespondInGroup
\* chat.participants.find(p => p.id._serialized === message.author)
FindParticipant(chat, author) ==
    LET at == {j \in 1..Len(chat.participants) : chat.participants[j].id = author}
    IN IF at = {} THEN None
       ELSE Some(chat.participants[CHOOSE j \in at : \A k \in at : j <= k])

\* A faulty gate: respondToAll is looked at first.
shouldRespondInGroupAllFirst(cfg, allowed, chat, message) ==
    IF cfg.respondToAll
    THEN TRUE
    ELSE IF cfg.respondOnlyWhenMentioned
    THEN Len(message.mentionedIds) > 0
    ELSE IF Len(allowed) > 0
    THEN \E j \in 1..Len(allowed) : allowed[j] = chat.id
    ELSE IF cfg.adminOnly
    THEN LET participant == FindParticipant(chat, message.author)
         IN participant # None /\ participant[1].isAdmin
    ELSE FALSE

\* lines 156-175; the result is taken for its truthiness (line 117)
shouldRespondInGroup(cfg, allowed, chat, message) ==
    IF cfg.respondOnlyWhenMentioned
    THEN Len(message.mentionedIds) > 0
    ELSE IF Len(allowed) > 0
    THEN \E j \in 1..Len(allowed) : allowed[j] = chat.id
    ELSE IF cfg.adminOnly
    THEN LET participant == FindParticipant(chat, message.author)
         IN participant # None /\ participant[1].isAdmin
    ELSE cfg.respondToAll

\* A faulty rule: the default reply is sent in groups as in direct chats.
shouldSendDefaultReplyAlways(cfg, chat) == TRUE

\* lines 178-183
shouldSendDefaultReply(cfg, chat) ==
    IF chat.isGroup THEN cfg.sendDefaultReplyInGroups ELSE TRUE

\* --------------------------------------------------- processDynamicContent
\* The replacement text of String.prototype.replace for a string value
\* (GetSubstitution): "$$" stands for "$" and "$&" for the matched text; the
\* pattern has no groups, so "$1" and the like stay as they are.
RECURSIVE Substitution(_, _)
Substitution(val, matched) ==
    IF Len(val) >= 2 /\ val[1] = "$" /\ val[2] = "$"
    THEN <<"$">> \o Substitution(SubSeq(val, 3, Len(val)), matched)
    ELSE IF Len(val) >= 2 /\ val[1] = "$" /\ val[2] = "&"
    THEN matched \o Substitution(SubSeq(val, 3, Len(val)), matched)
    ELSE IF val = <<>> THEN <<>>
    ELSE <<Head(val)>> \o Substitution(Tail(val), matched)

\* s.replace(new RegExp(pat, 'g'), val) for a pattern "{word}", which matches
\* itself: every occurrence, left to right, not overlapping; the inserted text
\* is not scanned again by the same call.
RECURSIVE ReplaceAll(_, _, _)
ReplaceAll(s, pat, val) ==
    IF Len(s) < Len(pat) THEN s
    ELSE IF SubSeq(s, 1, Len(pat)) = pat
    THEN Substitution(val, pat) \o ReplaceAll(SubSeq(s, Len(pat) + 1, Len(s)), pat, val)
    ELSE <<Head(s)>> \o ReplaceAll(Tail(s), pat, val)

pName == <<"{", "n", "a", "m", "e", "}">>
pTime == <<"{", "t", "i", "m", "e", "}">>
pDate == <<"{", "d", "a", "t", "e", "}">>
pPhone == <<"{", "p", "h", "o", "n", "e", "}">>
pMessage == <<"{", "m", "e", "s", "s", "a", "g", "e", "}">>
pGroup == <<"{", "g", "r", "o", "u", "p", "}">>
pMemberCount == <<"{", "m", "e", "m", "b", "e", "r", "C", "o", "u", "n", "t", "}">>

sThere == <<"t", "h", "e", "r", "e">>
sDirectMessage ==
    <<"D", "i", "r", "e", "c", "t", " ", "M", "e", "s", "s", "a", "g", "e">>
\* now.toLocaleTimeString(), now.toLocaleDateString(): one sample clock reading
sNowTime == <<"1", "0", ":", "0", "0">>
sNowDate == <<"1", "/", "2", "/", "2", "0", "2", "6">>

DigitChar(d) ==
    CASE d = 0 -> "0" [] d = 1 -> "1" [] d = 2 -> "2" [] d = 3 -> "3" [] d = 4 -> "4"
      [] d = 5 -> "5" [] d = 6 -> "6" [] d = 7 -> "7" [] d = 8 -> "8" [] d = 9 -> "9"

\* Number.prototype.toString of a natural number
RECURSIVE NatToString(_)
NatToString(n) ==
    IF n < 10 THEN <<DigitChar(n)>> ELSE Append(NatToString(n \div 10), DigitChar(n % 10))

\* a || b || c over string-or-undefined values
OrElse(a, b) == IF Truthy(a) THEN a ELSE b

\* lines 188-196, in the order of the object's keys
Replacements(contact, message, chat) ==
    << <<pName, OrElse(contact.name, OrElse(contact.pushname, Some(sThere)))[1]>>,
       <<pTime, sNowTime>>,
       <<pDate, sNowDate>>,
       <<pPhone, contact.number>>,
       <<pMessage, message.body>>,
       <<pGroup, IF chat.isGroup THEN chat.name ELSE sDirectMessage>>,
       <<pMemberCount,
         IF chat.isGroup THEN NatToString(Len(chat.participants)) ELSE <<"1">> >> >>

RECURSIVE ReplaceEach(_, _)
ReplaceEach(s, repl) ==
    IF repl = <<>> THEN s
    ELSE ReplaceEach(ReplaceAll(s, Head(repl)[1], Head(repl)[2]), Tail(repl))

\* lines 186-204
processDynamicContent(reply, contact, message, chat) ==
    ReplaceEach(reply, Replacements(contact, message, chat))

\* ----------------------------------------------------------- handleMessage
NoChat == [isGroup |-> FALSE, id |-> "none", name |-> <<>>, participants |-> <<>>]
NoContact == [name |-> None, pushname |-> None, number |-> <<>>]
NoMsg == [from |-> "none", fromMe |-> FALSE, body |-> <<>>, mentionedIds |-> <<>>,
          author |-> "none", chat |-> NoChat, contact |-> NoContact]

NewMsg == [pc |-> "new", msg |-> NoMsg, body |-> <<>>, exact |-> None,
           reply |-> None, seen |-> <<>>, outcome |-> "none", out |-> <<>>]

\* A faulty scan: the loop has no break, so the last matching entry wins.
PartialMatchLastWins(t, messageBody, reply) ==
    LET hits == {j \in 1..Len(t) : Includes(messageBody, t[j].key)}
    IN IF hits = {} THEN reply
       ELSE Some(t[CHOOSE j \in hits : \A k \in hits : k <= j].reply)

\* lines 130-135: the first entry, in the Map's order, whose key the body
\* includes; reply is left as it is when there is none
PartialMatch(t, messageBody, reply) ==
    LET hits == {j \in 1..Len(t) : Includes(messageBody, t[j].key)}
    IN IF hits = {} THEN reply
       ELSE Some(t[CHOOSE j \in hits : \A k \in hits : j <= k].reply)

\* A faulty handleMessage: the checks of lines 99 and 102 are missing.
ReceiveNoSkip(m, im) ==
    /\ m \in DOMAIN msgs
    /\ msgs[m].pc = "new"
    /\ client # "destroyed"
    /\ IF m = 1 THEN TRUE ELSE msgs[m - 1].pc # "new"
    /\ MayRun(<<"msg", m>>)
    /\ msgs' = [msgs EXCEPT ![m] =
                  [NewMsg EXCEPT !.pc = "getContact", !.msg = im,
                                 !.body = Normalize(im.body)]]
    /\ UNCHANGED <<config, allowedGroups, responses, timerSet, loads, sent, adds, allowListMode, client, installed>>

\* lines 96-104: the 'message' event calls handleMessage, which runs to its
\* first await (or returns at once for a status broadcast or an own message)
Receive(m, im) ==
    /\ m \in DOMAIN msgs
    /\ msgs[m].pc = "new"
    /\ client # "destroyed"
    /\ IF m = 1 THEN TRUE ELSE msgs[m - 1].pc # "new"
    /\ MayRun(<<"msg", m>>)
    /\ msgs' = [msgs EXCEPT ![m] =
                  IF im.from = "status@broadcast" \/ im.fromMe
                  THEN [NewMsg EXCEPT !.pc = "done", !.msg = im, !.outcome = "skipped"]
                  ELSE [NewMsg EXCEPT !.pc = "getContact", !.msg = im,
                                      !.body = Normalize(im.body)]]
    /\ UNCHANGED <<config, allowedGroups, responses, timerSet, loads, sent, adds, allowListMode, client, installed>>

\* line 105 resolves; line 106 suspends
ContactFetched(m) ==
    /\ m \in DOMAIN msgs
    /\ msgs[m].pc = "getContact"
    /\ MayRun(<<"msg", m>>)
    /\ msgs' = [msgs EXCEPT ![m].pc = "getChat"]
    /\ UNCHANGED <<config, allowedGroups, responses, timerSet, loads, sent, adds, allowListMode, client, installed>>

\* A faulty handleMessage: the return of line 118 is missing.
ChatFetchedNoReturn(m) ==
    /\ m \in DOMAIN msgs
    /\ msgs[m].pc = "getChat"
    /\ MayRun(<<"msg", m>>)
    /\ msgs' = [msgs EXCEPT ![m].pc = "exact"]
    /\ UNCHANGED <<config, allowedGroups, responses, timerSet, loads, sent, adds, allowListMode, client, installed>>

\* lines 106-123: the chat arrives; the group gate
ChatFetched(m) ==
    /\ m \in DOMAIN msgs
    /\ msgs[m].pc = "getChat"
    /\ MayRun(<<"msg", m>>)
    /\ msgs' = [msgs EXCEPT ![m] =
                  IF msgs[m].msg.chat.isGroup
                     /\ ~shouldRespondInGroup(config, allowedGroups,
                                              msgs[m].msg.chat, msgs[m].msg)
                  THEN [@ EXCEPT !.pc = "done", !.outcome = "denied"]
                  ELSE [@ EXCEPT !.pc = "exact"]]
    /\ UNCHANGED <<config, allowedGroups, responses, timerSet, loads, sent, adds, allowListMode, client, installed>>

\* line 126
LookupExact(m) ==
    /\ m \in DOMAIN msgs
    /\ msgs[m].pc = "exact"
    /\ MayRun(<<"msg", m>>)
    /\ msgs' = [msgs EXCEPT ![m].exact = MapGet(responses, msgs[m].body),
                            ![m].reply = MapGet(responses, msgs[m].body),
                            ![m].seen = responses,
                            ![m].pc = "scan"]
    /\ UNCHANGED <<config, allowedGroups, responses, timerSet, loads, sent, adds, allowListMode, client, installed>>

\* lines 129-136
LookupScan(m) ==
    /\ m \in DOMAIN msgs
    /\ msgs[m].pc = "scan"
    /\ MayRun(<<"msg", m>>)
    /\ msgs' = [msgs EXCEPT ![m].reply =
                              IF ~Truthy(msgs[m].reply)
                              THEN PartialMatch(responses, msgs[m].body, msgs[m].reply)
                              ELSE msgs[m].reply,
                            ![m].pc = "decide"]
    /\ UNCHANGED <<config, allowedGroups, responses, timerSet, loads, sent, adds, allowListMode, client, installed>>

\* What handleMessage still holds once lines 139-148 have run: its locals are
\* no longer read.
Settled(h, pc, outcome, text) ==
    [NewMsg EXCEPT !.pc = pc, !.msg = h.msg, !.outcome = outcome, !.out = text]

\* lines 139-148: message.reply is called and awaited, or nothing is sent
Decide(m) ==
    /\ m \in DOMAIN msgs
    /\ msgs[m].pc = "decide"
    /\ MayRun(<<"msg", m>>)
    /\ LET h == msgs[m]
       IN IF Truthy(h.reply)
          THEN /\ sent' = Append(sent, m)
               /\ msgs' = [msgs EXCEPT ![m] =
                             Settled(h, "replying", "matched",
                                     processDynamicContent(h.reply[1], h.msg.contact,
                                                           h.msg, h.msg.chat))]
          ELSE IF Truthy(config.defaultReply) /\ shouldSendDefaultReply(config, h.msg.chat)
          THEN /\ sent' = Append(sent, m)
               /\ msgs' = [msgs EXCEPT ![m] =
                             Settled(h, "replying", "default", config.defaultReply[1])]
          ELSE /\ sent' = sent
               /\ msgs' = [msgs EXCEPT ![m] = Settled(h, "done", "nothing", <<>>)]
    /\ UNCHANGED <<config, allowedGroups, responses, timerSet, loads, adds, allowListMode, client, installed>>

\* lines 143-144, 146-147: the send completes; handleMessage returns
ReplyDone(m) ==
    /\ m \in DOMAIN msgs
    /\ msgs[m].pc = "replying"
    /\ MayRun(<<"msg", m>>)
    /\ msgs' = [msgs EXCEPT ![m].pc = "done", ![m].out = <<>>]
    /\ UNCHANGED <<config, allowedGroups, responses, timerSet, loads, sent, adds, allowListMode, client, installed>>

\* ------------------------------------------------------- allowed-group list
\* lines 257-262
addToAllowedGroups(groupId) ==
    /\ Running = {}
    /\ \A j \in 1..Len(allowedGroups) : allowedGroups[j] # groupId
    /\ allowedGroups' = Append(allowedGroups, groupId)
    /\ allowListMode' = TRUE
    /\ UNCHANGED <<config, responses, timerSet, loads, msgs, sent, adds, client, installed>>

\* lines 264-270: indexOf, then splice(index, 1)
removeFromAllowedGroups(groupId) ==
    /\ Running = {}
    /\ \E j \in 1..Len(allowedGroups) : allowedGroups[j] = groupId
    /\ LET index == CHOOSE j \in 1..Len(allowedGroups) :
                      /\ allowedGroups[j] = groupId
                      /\ \A k \in 1..(j - 1) : allowedGroups[k] # groupId
       IN allowedGroups' = SubSeq(allowedGroups, 1, index - 1)
                           \o SubSeq(allowedGroups, index + 1, Len(allowedGroups))
    /\ UNCHANGED <<config, responses, timerSet, loads, msgs, sent, adds, allowListMode, client, installed>>

\* -------------------------------------------------------------------- stop
\* line 219: stop() calls client.destroy() and suspends
StopCall ==
    /\ client = "up"
    /\ Running = {}
    /\ client' = "destroying"
    /\ UNCHANGED <<config, allowedGroups, responses, timerSet, loads, msgs, sent, adds, allowListMode, installed>>

\* lines 219-223: the connection is torn down and stop() returns; the timer
\* of line 36 is not touched
StopDone ==
    /\ client = "destroying"
    /\ Running = {}
    /\ client' = "destroyed"
    /\ UNCHANGED <<config, allowedGroups, responses, timerSet, loads, msgs, sent, adds, allowListMode, installed>>

\* lines 105-106, 150-152: getContact() or getChat() rejects; the catch logs
\* and handleMessage returns
FetchFailed(m) ==
    /\ m \in DOMAIN msgs
    /\ msgs[m].pc \in {"getContact", "getChat"}
    /\ MayRun(<<"msg", m>>)
    /\ msgs' = [msgs EXCEPT ![m] = Settled(msgs[m], "done", "error", <<>>)]
    /\ UNCHANGED <<config, allowedGroups, responses, timerSet, loads, sent, adds, allowListMode, client, installed>>

\* ------------------------------------------------------------------ inputs
sHiX == <<"H", "i", "x">>
sX == <<"x">>
sAnn == <<"A", "n", "n">>
sPhone == <<"5", "5">>
sTeam == <<"T", "e", "a", "m">>
sDefault == <<"d">>

Bodies == {sHiMixed, sHiX, sX}

Ann == [name |-> None, pushname |-> Some(sAnn), number |-> sPhone]

DirectChat == [isGroup |-> FALSE, id |-> "u2@c.us", name |-> sAnn, participants |-> <<>>]

GroupChat(id) ==
    [isGroup |-> TRUE, id |-> id, name |-> sTeam,
     participants |-> << [id |-> "u1", isAdmin |-> TRUE],
                         [id |-> "u2", isAdmin |-> FALSE] >>]

DirectMsg(b) ==
    [from |-> "u2@c.us", fromMe |-> FALSE, body |-> b, mentionedIds |-> <<>>,
     author |-> "none", chat |-> DirectChat, contact |-> Ann]

GroupMsg(b, g, mentions, author) ==
    [from |-> g, fromMe |-> FALSE, body |-> b, mentionedIds |-> mentions,
     author |-> author, chat |-> GroupChat(g), contact |-> Ann]

SkippedMessages ==
    { [DirectMsg(sHiMixed) EXCEPT !.from = "status@broadcast"],
      [DirectMsg(sHiMixed) EXCEPT !.fromMe = TRUE],
      [GroupMsg(sHiMixed, "g1", <<"bot">>, "u1") EXCEPT !.fromMe = TRUE] }

DirectMessages == {DirectMsg(b) : b \in Bodies} \cup SkippedMessages

GroupIds == {"g1", "g2"}

GroupMessages ==
    { GroupMsg(sHiMixed, "g1", <<>>, "u1"),
      GroupMsg(sHiMixed, "g1", <<"bot">>, "u2"),
      GroupMsg(sX, "g2", <<>>, "u2"),
      GroupMsg(sX, "g2", <<"bot">>, "u3"),
      GroupMsg(sHiMixed, "g2", <<>>, "u1"),
      GroupMsg(sX, "g1", <<>>, "u3") }

\* ----------------------------------------------------------- specification
Handle(m) ==
    \/ ContactFetched(m)
    \/ ChatFetched(m)
    \/ LookupExact(m)
    \/ LookupScan(m)
    \/ Decide(m)
    \/ ReplyDone(m)

\* The state when the constructor returns (lines 9-19): the table is empty and
\* the initial loadResponses (line 33) is suspended at its fetch.  nMsgs is the
\* number of messages that will come in.
Constructed(nMsgs) ==
    /\ allowedGroups = <<>>
    /\ responses = <<>>
    /\ timerSet = FALSE
    /\ loads = [c \in 1..MaxCycles |-> IF c = 1 THEN [IdleLoad EXCEPT !.pc = "fetching"]
                                       ELSE IdleLoad]
    /\ msgs = [m \in 1..nMsgs |-> NewMsg]
    /\ sent = <<>>
    /\ adds = 0
    /\ allowListMode = FALSE
    /\ client = "up"
    /\ installed = 0

\* ---------------------------------------------- the rebuild, on any rows
\* config.groupSettings as lines 311-317 set it when the environment sets
\* nothing; hasHeader and caseSensitive as the constructor's caller likes.
RebuildConfigs ==
    [hasHeader : BOOLEAN, caseSensitive : BOOLEAN, defaultReply : {None},
     respondOnlyWhenMentioned : {FALSE}, adminOnly : {FALSE}, respondToAll : {TRUE},
     sendDefaultReplyInGroups : {FALSE}]

InitRebuild == config \in RebuildConfigs /\ Constructed(0)

NextRebuild ==
    \/ \E c \in 1..MaxCycles :
          \/ LoadStart(c)
          \/ \E rows \in RowSeqs : FetchResolve(c, rows)
          \/ FetchReject(c)
          \/ LoadRow(c)
          \/ LoadReturn(c)
    \/ \E k \in AddKeywords, r \in AddReplies : AddResponse(k, r)

SpecRebuild == InitRebuild /\ [][NextRebuild]_vars

\* ------------------------------------ messages while the table is refreshed
\* The configuration of lines 297-323 (hasHeader: true), caseSensitive either way.
Configs ==
    [hasHeader : {TRUE}, caseSensitive : BOOLEAN, defaultReply : {None},
     respondOnlyWhenMentioned : {FALSE}, adminOnly : {FALSE}, respondToAll : {TRUE},
     sendDefaultReplyInGroups : {FALSE}]

sHeader == <<sX, sA>>

\* Sheets with a header row, as fetched.
Sheets ==
    { <<>>,
      <<sHeader>>,
      <<sHeader, <<sH, sB>>, <<sHi, sBlank>>>>,
      <<sHeader, <<sHiMixed, sCPadded>>>>,
      <<sHeader, <<sHi, sA>>, <<sH, sB>>, <<sHiMixed, sCPadded>>>> }

Init == config \in Configs /\ Constructed(MaxMsgs)

Next ==
    \/ \E c \in 1..MaxCycles :
          \/ LoadStart(c)
          \/ \E rows \in Sheets : FetchResolve(c, rows)
          \/ FetchReject(c)
          \/ LoadRow(c)
          \/ LoadReturn(c)
    \/ \E m \in 1..MaxMsgs : (\E im \in DirectMessages : Receive(m, im)) \/ Handle(m)
    \/ \E k \in AddKeywords, r \in AddReplies : AddResponse(k, r)

Spec == Init /\ [][Next]_vars

\* ------------------------------------------- group policy and default reply
\* Any config the constructor may be given for the group settings and the
\* default reply (null, "" or a text).
GroupConfigs ==
    [hasHeader : {TRUE}, caseSensitive : {FALSE},
     defaultReply : {None, Some(sEmpty), Some(sDefault)},
     respondOnlyWhenMentioned : BOOLEAN, adminOnly : BOOLEAN, respondToAll : BOOLEAN,
     sendDefaultReplyInGroups : BOOLEAN]

\* Tables a refresh or addResponse leaves behind.
GroupTables == {<<>>, StoreRow(<<>>, <<sHi, sTemplate>>)}

\* The bot some time after start: the initial load has returned, the table is
\* one a refresh produced, no message is being handled.
InitGroup ==
    /\ config \in GroupConfigs
    /\ allowedGroups \in {<<>>, <<"g1">>}
    /\ responses \in GroupTables
    /\ timerSet = TRUE
    /\ loads = [c \in 1..MaxCycles |-> [IdleLoad EXCEPT !.pc = "done"]]
    /\ msgs = [m \in 1..MaxMsgs |-> NewMsg]
    /\ sent = <<>>
    /\ adds = 0
    /\ allowListMode = (allowedGroups # <<>>)
    /\ client = "up"
    /\ installed = 1

NextGroup ==
    \/ \E m \in 1..MaxMsgs :
          (\E im \in GroupMessages \cup DirectMessages : Receive(m, im)) \/ Handle(m)
    \/ \E g \in GroupIds : addToAllowedGroups(g) \/ removeFromAllowedGroups(g)

SpecGroup == InitGroup /\ [][NextGroup]_vars

\* ------------------------------------------------------- reply templates
sNam == <<"{", "n", "a", "m", "}">>
sGroupToken == <<"{", "g", "r", "o", "u", "p", "}">>
sHiGroup == <<"h", "i", "{", "g", "r", "o", "u", "p", "}">>
sHiAmp == <<"h", "i", "$", "&">>

\* Reply templates a sheet may hold.
Templates ==
    { sA,                                   \* no placeholder
      sNam,                                 \* looks like a placeholder, is none
      pName,
      pMessage,
      pName \o <<" ">> \o pTime,
      pGroup \o pMemberCount \o pPhone \o pDate }

ExpandTables == {StoreRow(<<>>, <<sHi, t>>) : t \in Templates}

\* A contact whose display name is the text "{group}".
Curly == [name |-> Some(sGroupToken), pushname |-> None, number |-> sPhone]

ExpandMessages ==
    { DirectMsg(sHiMixed),
      [DirectMsg(sHiMixed) EXCEPT !.contact = Curly],
      DirectMsg(sHiGroup),
      DirectMsg(sHiAmp),
      GroupMsg(sHiMixed, "g1", <<>>, "u1") }

\* The bot some time after start, with one of the tables above.
InitExpand ==
    /\ config \in Configs
    /\ allowedGroups = <<>>
    /\ responses \in ExpandTables
    /\ timerSet = TRUE
    /\ loads = [c \in 1..MaxCycles |-> [IdleLoad EXCEPT !.pc = "done"]]
    /\ msgs = [m \in 1..MaxMsgs |-> NewMsg]
    /\ sent = <<>>
    /\ adds = 0
    /\ allowListMode = FALSE
    /\ client = "up"
    /\ installed = 1

NextExpand ==
    \E m \in 1..MaxMsgs : (\E im \in ExpandMessages : Receive(m, im)) \/ Handle(m)

SpecExpand == InitExpand /\ [][NextExpand]_vars

\* --------------------------------------------- several messages in flight
\* The number of messages that come in: more than one.
OrderMsgs == MaxMsgs + 1

OrderMessages == {DirectMsg(sHiMixed), DirectMsg(sHiX)}

\* The bot some time after start; every message of OrderMessages has a
\* keyword of the table in its body.
InitOrder ==
    /\ config \in Configs
    /\ allowedGroups = <<>>
    /\ responses = StoreRow(<<>>, <<sHi, sA>>)
    /\ timerSet = TRUE
    /\ loads = [c \in 1..MaxCycles |-> [IdleLoad EXCEPT !.pc = "done"]]
    /\ msgs = [m \in 1..OrderMsgs |-> NewMsg]
    /\ sent = <<>>
    /\ adds = 0
    /\ allowListMode = FALSE
    /\ client = "up"
    /\ installed = 1

NextOrder ==
    \E m \in 1..OrderMsgs : (\E im \in OrderMessages : Receive(m, im)) \/ Handle(m)

SpecOrder == InitOrder /\ [][NextOrder]_vars

\* ---------------------------------------------------------------- shutdown
StopSheets == { <<sHeader, <<sHi, sA>>>>, <<sHeader, <<sH, sB>>>> }

StopMessages == {DirectMsg(sHiMixed), DirectMsg(sX)}

\* The bot from its construction on, with stop() called at any time.  What a
\* fetch on the client does while or after the client is destroyed is the
\* library's matter: it may still resolve, or reject.
InitStop == config \in Configs /\ Constructed(MaxMsgs)

NextStop ==
    \/ \E c \in 1..MaxCycles :
          \/ LoadStart(c)
          \/ \E rows \in StopSheets : FetchResolve(c, rows)
          \/ FetchReject(c)
          \/ LoadRow(c)
          \/ LoadReturn(c)
    \/ \E m \in 1..MaxMsgs :
          \/ \E im \in StopMessages : Receive(m, im)
          \/ Handle(m)
          \/ FetchFailed(m)
    \/ StopCall
    \/ StopDone

SpecStop == InitStop /\ [][NextStop]_vars

\* ------------------------------------------------- overlapping refreshes
\* The initial load and MaxCycles calls of loadResponses by the timer.
OvertakeCycles == MaxCycles + 1

\* The bot when the initial load has returned and line 36 has installed the
\* timer; the interval may elapse before the fetch of the previous cycle has
\* come back.
InitOvertake ==
    /\ config \in Configs
    /\ allowedGroups = <<>>
    /\ responses \in {<<>>, StoreRow(<<>>, <<sHi, sA>>)}
    /\ timerSet = TRUE
    /\ loads = [c \in 1..OvertakeCycles |->
                  IF c = 1 THEN [IdleLoad EXCEPT !.pc = "done"] ELSE IdleLoad]
    /\ msgs = <<>>
    /\ sent = <<>>
    /\ adds = 0
    /\ allowListMode = FALSE
    /\ client = "up"
    /\ installed = IF responses = <<>> THEN 0 ELSE 1

NextOvertake ==
    \E c \in 1..OvertakeCycles :
        \/ LoadStart(c)
        \/ \E rows \in Sheets : FetchResolve(c, rows)
        \/ FetchReject(c)
        \/ LoadRow(c)
        \/ LoadReturn(c)

SpecOvertake == InitOvertake /\ [][NextOvertake]_vars

\* ------------------------------------------------------------------ properties
HandlerIds == DOMAIN msgs
CycleIds == DOMAIN loads

\* keyword && reply (line 59) in terms of the row's cells
WellFormed(row) == Len(row) >= 2 /\ row[1] # <<>> /\ row[2] # <<>>

\* The rows of cycle c that the rebuild takes as data and does not skip.
DataRows(c) ==
    {i \in StartRow(config)..Len(loads[c].rows) : WellFormed(loads[c].rows[i])}

KeySeq(t) == [j \in 1..Len(t) |-> t[j].key]

\* C1: a handler that is at its exact lookup or at its partial-match scan
\* never finds a refresh between its clear and the end of its refill, and the
\* table its scan reads is the very table its exact lookup read.
C1_RefreshAtomicity ==
    \A m \in HandlerIds :
        msgs[m].pc \in {"exact", "scan"} =>
            /\ \A c \in CycleIds : loads[c].pc # "row"
            /\ msgs[m].pc = "scan" => msgs[m].seen = responses

\* A lookup is between its exact get and its scan, on a table an earlier
\* refresh installed, while the fetch of a later refresh is outstanding.
C1_Witness ==
    \E m \in HandlerIds, c, d \in CycleIds :
        /\ msgs[m].pc = "scan"
        /\ msgs[m].seen # <<>>
        /\ loads[c].pc = "done"
        /\ loads[d].pc = "fetching"

\* C2: the step in which a cycle's fetch fails leaves the table and the
\* message handlers as they were, and the only step that follows in that cycle
\* is the normal return of loadResponses, with the table still unchanged (after
\* the initial load, the caller goes on to install the timer).
C2_FetchFailureKeepsTable ==
    [][\A c \in CycleIds :
          /\ (loads[c].pc = "fetching" /\ loads'[c].pc = "caught") =>
                (responses' = responses /\ msgs' = msgs)
          /\ (loads[c].pc = "caught" /\ loads'[c].pc # "caught") =>
                (loads'[c].pc = "done" /\ timerSet' /\ responses' = responses
                 /\ msgs' = msgs)]_vars

\* The fetch of a cycle after the first has just failed, the table an earlier
\* cycle built is still there, and a message that is waiting for its chat has
\* its keyword in it.
C2_Witness ==
    \E m \in HandlerIds, c \in CycleIds :
        /\ c > 1
        /\ loads[c].pc = "caught"
        /\ responses # <<>>
        /\ msgs[m].pc = "getChat"
        /\ MapHas(responses, msgs[m].body)

\* C3: when the normalized body is a key of the table, the reply chosen
\* (line 136) is the reply stored under that key.
C3_ExactMatchWins ==
    \A m \in HandlerIds :
        (msgs[m].pc = "decide" /\ MapHas(msgs[m].seen, msgs[m].body)) =>
            msgs[m].reply = MapGet(msgs[m].seen, msgs[m].body)

FirstHit(t, messageBody) ==
    LET hits == {j \in 1..Len(t) : Includes(messageBody, t[j].key)}
    IN IF hits = {} THEN None
       ELSE Some(t[CHOOSE j \in hits : \A k \in hits : j <= k].reply)

RECURSIVE FirstOccurrences(_)
FirstOccurrences(q) ==
    IF q = <<>> THEN <<>>
    ELSE LET front == FirstOccurrences(SubSeq(q, 1, Len(q) - 1))
             x == q[Len(q)]
         IN IF \E j \in 1..Len(front) : front[j] = x THEN front ELSE Append(front, x)

RowKeys(c) ==
    LET rows == loads[c].rows
        data == SelectSeq([i \in 1..Len(rows) |-> IF i \in DataRows(c) THEN <<rows[i]>> ELSE <<>>],
                          LAMBDA o : o # <<>>)
    IN [j \in 1..Len(data) |-> Normalize(data[j][1][1])]

\* C4: when the normalized body is no key of the table, the reply chosen is
\* that of the first entry, in the table's order, whose key the body includes,
\* and none if there is no such entry; the table's order is the order of first
\* insertion since the last rebuild, and a set() of a present key moves nothing.
C4_PartialFirstInOrder ==
    /\ [](\A m \in HandlerIds :
            (msgs[m].pc = "decide" /\ ~MapHas(msgs[m].seen, msgs[m].body)) =>
                msgs[m].reply = FirstHit(msgs[m].seen, msgs[m].body))
    /\ [](\A c \in CycleIds :
            loads[c].pc = "loaded" => KeySeq(responses) = FirstOccurrences(RowKeys(c)))
    /\ [][adds' # adds =>
            \/ KeySeq(responses') = KeySeq(responses)
            \/ /\ Len(responses') = Len(responses) + 1
               /\ SubSeq(KeySeq(responses'), 1, Len(responses)) = KeySeq(responses)
               /\ ~MapHas(responses, responses'[Len(responses')].key)]_vars

\* The body is no key; two entries' keys are both included in it, with
\* different replies, and the first one's reply is chosen.
C4_Witness ==
    \E m \in HandlerIds :
        /\ msgs[m].pc = "decide"
        /\ ~MapHas(msgs[m].seen, msgs[m].body)
        /\ Len(msgs[m].seen) >= 2
        /\ Includes(msgs[m].body, msgs[m].seen[1].key)
        /\ Includes(msgs[m].body, msgs[m].seen[2].key)
        /\ msgs[m].seen[1].reply # msgs[m].seen[2].reply
        /\ msgs[m].reply = Some(msgs[m].seen[1].reply)

\* The group policy modes that are configured, by rank: 1 MentionOnly,
\* 2 AllowListOnly, 3 AdminOnly, 4 RespondToAll.
ConfiguredModes ==
    {r \in 1..4 : CASE r = 1 -> config.respondOnlyWhenMentioned
                    [] r = 2 -> allowedGroups # <<>>
                    [] r = 3 -> config.adminOnly
                    [] r = 4 -> config.respondToAll}

ModeRule(r, message) ==
    CASE r = 1 -> message.mentionedIds # <<>>
      [] r = 2 -> message.chat.id \in {allowedGroups[j] : j \in 1..Len(allowedGroups)}
      [] r = 3 -> \E j \in 1..Len(message.chat.participants) :
                     /\ message.chat.participants[j].id = message.author
                     /\ message.chat.participants[j].isAdmin
      [] r = 4 -> TRUE

\* The step of handler m in which the group gate is evaluated.
GateStep(m) == msgs[m].pc = "getChat" /\ msgs'[m].pc # "getChat"

\* C5: for a group message, when at least one mode is configured, the gate
\* allows iff the rule of the configured mode of highest precedence allows.
C5_GatePrecedence ==
    [][\A m \in HandlerIds :
          (GateStep(m) /\ msgs[m].msg.chat.isGroup /\ ConfiguredModes # {}) =>
              LET mode == CHOOSE r \in ConfiguredModes : \A q \in ConfiguredModes : r <= q
              IN (msgs'[m].outcome # "denied") <=> ModeRule(mode, msgs[m].msg)]_vars

\* MentionOnly and RespondToAll are both set and a group message without
\* mentions has been denied.
C5_Witness ==
    \E m \in HandlerIds :
        /\ config.respondOnlyWhenMentioned
        /\ config.respondToAll
        /\ msgs[m].msg.chat.isGroup
        /\ msgs[m].msg.mentionedIds = <<>>
        /\ msgs[m].outcome = "denied"

\* C6: no group message passes the gate while allow-list mode is the selected
\* policy (MentionOnly is off and the allow-list has been in use) and the
\* allow-list is empty.
C6_EmptyAllowListDeniesAll ==
    \A m \in HandlerIds :
        ~ /\ msgs[m].pc = "exact"
          /\ msgs[m].msg.chat.isGroup
          /\ ~config.respondOnlyWhenMentioned
          /\ allowListMode
          /\ allowedGroups = <<>>

\* The step of handler m in which lines 139-148 run.
DecideStep(m) == msgs[m].pc = "decide" /\ msgs'[m].pc # "decide"

NoKeywordMatches(h) == \A j \in 1..Len(h.seen) : ~Includes(h.body, h.seen[j].key)

\* C7: for a handled message that matches no keyword, the default reply is
\* sent iff it is configured and the chat is direct or
\* sendDefaultReplyInGroups is set; otherwise nothing is sent.
C7_DefaultReplyRule ==
    [][\A m \in HandlerIds :
          (DecideStep(m) /\ NoKeywordMatches(msgs[m])) =>
              IF /\ config.defaultReply \notin {None, Some(<<>>)}
                 /\ (~msgs[m].msg.chat.isGroup \/ config.sendDefaultReplyInGroups)
              THEN /\ msgs'[m].outcome = "default"
                   /\ msgs'[m].out = config.defaultReply[1]
                   /\ sent' = Append(sent, m)
              ELSE /\ msgs'[m].outcome = "nothing"
                   /\ msgs'[m].pc = "done"
                   /\ sent' = sent]_vars

\* A default reply is configured, sendDefaultReplyInGroups is off, and an
\* unmatched group message that passed the gate got no reply.
C7_Witness ==
    \E m \in HandlerIds :
        /\ config.defaultReply = Some(sDefault)
        /\ ~config.sendDefaultReplyInGroups
        /\ msgs[m].msg.chat.isGroup
        /\ msgs[m].msg.body = sX
        /\ msgs[m].outcome = "nothing"
        /\ sent = <<>>

\* Normalization as config.caseSensitive asks for it.
ConfiguredNormalize(s) ==
    IF config.caseSensitive THEN Trim(s) ELSE Trim(ToLowerCase(s))

\* C8: every keyword a rebuild stores and every body a handler looks up is
\* trimmed, and case-folded only when caseSensitive is false.
C8_NormalizationHonoursCaseSensitive ==
    /\ \A c \in CycleIds :
          loads[c].pc = "loaded" =>
              \A i \in DataRows(c) :
                  MapHas(responses, ConfiguredNormalize(loads[c].rows[i][1]))
    /\ \A m \in HandlerIds :
          msgs[m].pc \in {"getContact", "getChat", "exact", "scan", "decide"} =>
              msgs[m].body = ConfiguredNormalize(msgs[m].msg.body)

\* C9: when a rebuild has run through its rows, with hasHeader every entry of
\* the table stems from a row after the first, and without hasHeader a
\* well-formed first row has its key in the table.
C9_HeaderRowSkipped ==
    \A c \in CycleIds :
        loads[c].pc = "loaded" =>
            LET rows == loads[c].rows
            IN /\ config.hasHeader =>
                    \A j \in 1..Len(responses) :
                        \E i \in 2..Len(rows) :
                            /\ WellFormed(rows[i])
                            /\ responses[j] = Entry(Normalize(rows[i][1]), Trim(rows[i][2]))
               /\ (~config.hasHeader /\ WellFormed(rows[1])) =>
                    MapHas(responses, Normalize(rows[1][1]))

\* hasHeader is set, the first row is a well-formed pair, later rows gave the
\* table an entry, and the first row's key is not in the table.
C9_Witness ==
    \E c \in CycleIds :
        /\ loads[c].pc = "loaded"
        /\ config.hasHeader
        /\ WellFormed(loads[c].rows[1])
        /\ responses # <<>>
        /\ ~MapHas(responses, Normalize(loads[c].rows[1][1]))

\* C10: when a rebuild has run through its rows, the keys of the table are
\* the normalized keywords of the data rows that have both cells non-empty,
\* each key's reply is the trimmed reply of the last such row with that key,
\* and (in every state) no two entries of the table have the same key.
C10_RebuildContent ==
    /\ \A j, k \in 1..Len(responses) : responses[j].key = responses[k].key => j = k
    /\ \A c \in CycleIds :
          loads[c].pc = "loaded" =>
              LET rows == loads[c].rows
              IN /\ Keys(responses) = {Normalize(rows[i][1]) : i \in DataRows(c)}
                 /\ \A j \in 1..Len(responses) :
                       LET same == {i \in DataRows(c) :
                                       Normalize(rows[i][1]) = responses[j].key}
                           last == CHOOSE i \in same : \A k \in same : k <= i
                       IN responses[j].reply = Trim(rows[last][2])

\* A rebuild in which a later data row overwrote the reply of an earlier one
\* with the same normalized key, and another in which a row was skipped.
C10_Witness ==
    \E c \in CycleIds :
        /\ loads[c].pc = "loaded"
        /\ \E i, k \in DataRows(c) :
              /\ i < k
              /\ Normalize(loads[c].rows[i][1]) = Normalize(loads[c].rows[k][1])
              /\ loads[c].rows[i][1] # loads[c].rows[k][1]
              /\ Trim(loads[c].rows[i][2]) # Trim(loads[c].rows[k][2])
              /\ Len(responses) = 1

\* One pass over the template: at each position a recognized placeholder is
\* replaced by its value, and the scan goes on behind the placeholder.
RECURSIVE ExpandOnce(_, _)
ExpandOnce(s, repl) ==
    IF s = <<>> THEN <<>>
    ELSE LET at == {j \in 1..Len(repl) :
                       /\ Len(repl[j][1]) <= Len(s)
                       /\ SubSeq(s, 1, Len(repl[j][1])) = repl[j][1]}
         IN IF at = {}
            THEN <<Head(s)>> \o ExpandOnce(Tail(s), repl)
            ELSE LET j == CHOOSE k \in at : TRUE
                 IN repl[j][2] \o ExpandOnce(SubSeq(s, Len(repl[j][1]) + 1, Len(s)), repl)

\* C11: the text sent for a keyword reply is the template with every
\* recognized placeholder replaced by its context value in one simultaneous
\* pass: inserted values are not expanded again, other text is left as it is.
C11_SimultaneousSubstitution ==
    [][\A m \in HandlerIds :
          (DecideStep(m) /\ Truthy(msgs[m].reply)) =>
              msgs'[m].out = ExpandOnce(msgs[m].reply[1],
                                        Replacements(msgs[m].msg.contact, msgs[m].msg,
                                                     msgs[m].msg.chat))]_vars

\* C12: after addResponse(k, r) an exact lookup of the normalized k gives
\* the trimmed r, whatever was stored under that key before, and every other
\* entry of the table is as it was, in the same place.
C12_ManualUpsert ==
    [][\A k \in AddKeywords, r \in AddReplies :
          AddResponse(k, r) =>
              /\ MapGet(responses', Normalize(k)) = Some(Trim(r))
              /\ Keys(responses') = Keys(responses) \cup {Normalize(k)}
              /\ \A j \in 1..Len(responses) :
                    responses[j].key # Normalize(k) => responses'[j] = responses[j]]_vars

\* addResponse(" Hi ", "{name}") has replaced the reply a refresh stored under
\* "hi", and the entry after it is untouched.
C12_Witness ==
    /\ adds = 1
    /\ responses = <<Entry(sHi, sTemplate), Entry(sH, sB)>>

\* C13: message.reply is called on the messages in the order in which they
\* arrived (handlers are numbered in arrival order).
C13_RepliesInArrivalOrder ==
    \A i, j \in 1..Len(sent) : i < j => sent[i] < sent[j]

\* C14: once stop() has returned, the timer starts no refresh cycle and no
\* timer-driven cycle writes the table.
C14_NoRefreshAfterStop ==
    [][client = "destroyed" =>
          \A c \in CycleIds \ {1} :
              /\ ~(loads[c].pc = "idle" /\ loads'[c].pc = "fetching")
              /\ ~(loads[c].pc \in {"fetching", "row"} /\ loads'[c].pc \in {"row", "loaded"})]_vars

\* C15: once stop() has torn the connection down, message.reply is called by
\* no handler, not even one that was waiting for its contact or chat when
\* stop() was called.
C15_NoReplyAfterTeardown ==
    [][client = "destroyed" => sent' = sent]_vars

\* C16: when the gate denies a group message, handleMessage returns in that
\* very step, with no lookup made and nothing sent; a handler that has
\* returned does nothing more, and a reply is only ever sent by a handler
\* that went through the lookup.
C16_GateDenialStops ==
    /\ [][\A m \in HandlerIds :
             (/\ GateStep(m)
              /\ msgs[m].msg.chat.isGroup
              /\ ~shouldRespondInGroup(config, allowedGroups, msgs[m].msg.chat, msgs[m].msg)) =>
                 /\ msgs'[m].pc = "done"
                 /\ msgs'[m].exact = None
                 /\ msgs'[m].reply = None
                 /\ msgs'[m].seen = <<>>
                 /\ sent' = sent]_vars
    /\ [][\A m \in HandlerIds : msgs[m].pc = "done" => msgs'[m] = msgs[m]]_vars
    /\ [][sent' # sent =>
             \E m \in HandlerIds : msgs[m].pc = "decide" /\ sent' = Append(sent, m)]_vars

\* A group message was denied although its body is a key of the table and a
\* default reply is configured for groups; nothing was sent.
C16_Witness ==
    \E m \in HandlerIds :
        /\ msgs[m].outcome = "denied"
        /\ msgs[m].pc = "done"
        /\ msgs[m].msg.chat.isGroup
        /\ MapHas(responses, msgs[m].body)
        /\ config.defaultReply = Some(sDefault)
        /\ config.sendDefaultReplyInGroups
        /\ sent = <<>>

\* C17: a message from status@broadcast or from the bot itself is done with
\* as soon as it has come in: its handler has returned without fetching the
\* contact or the chat, with no gate and no lookup evaluated, and no reply is
\* ever sent for it.
C17_SelfAndBroadcastSkipped ==
    \A m \in HandlerIds :
        (/\ msgs[m].pc # "new"
         /\ (msgs[m].msg.from = "status@broadcast" \/ msgs[m].msg.fromMe)) =>
            /\ msgs[m].pc = "done"
            /\ msgs[m].outcome = "skipped"
            /\ msgs[m].seen = <<>>
            /\ msgs[m].exact = None
            /\ \A j \in 1..Len(sent) : sent[j] # m

\* An own message in a group came in with a mention, from an admin, with its
\* body a key of the table and a default reply configured for groups, and
\* nothing was sent.
C17_Witness ==
    \E m \in HandlerIds :
        /\ msgs[m].msg.fromMe
        /\ msgs[m].msg.chat.isGroup
        /\ msgs[m].pc = "done"
        /\ MapHas(responses, Normalize(msgs[m].msg.body))
        /\ config.defaultReply = Some(sDefault)
        /\ config.sendDefaultReplyInGroups
        /\ sent = <<>>

\* C18: when a cycle whose fetch succeeded has gone through its rows (also
\* when there were none), the table holds the entries those rows produce and
\* nothing else: no earlier entry survives, whether from a previous refresh or
\* from addResponse.
C18_FullRebuild ==
    \A c \in CycleIds :
        loads[c].pc \in {"loaded", "norows"} =>
            LET rows == loads[c].rows
            IN /\ Keys(responses) = {Normalize(rows[i][1]) : i \in DataRows(c)}
               /\ \A j \in 1..Len(responses) :
                     \E i \in DataRows(c) :
                         responses[j] = Entry(Normalize(rows[i][1]), Trim(rows[i][2]))

\* C19: tables are installed in the order in which their cycles were
\* started (cycles are numbered in that order): no cycle rebuilds the table
\* after a cycle that was started later has rebuilt it.
C19_InstallInStartOrder ==
    [][installed' >= installed]_vars

\* C20: every entry of the table has a non-empty key and a non-empty reply.
C20_TableWellFormed ==
    \A j \in 1..Len(responses) :
        responses[j].key # <<>> /\ responses[j].reply # <<>>

====
